---- MODULE Spec2Model ----
(***************************************************************************)
(* Model of go/cmd/vtctldclient/command/query.go: the four cobra commands  *)
(* ExecuteFetchAsApp, ExecuteFetchAsDBA, ExecuteMultiFetchAsDBA and        *)
(* GetUnresolvedTransactions, their package-level option variables, the    *)
(* request each one builds, and what each one writes.                      *)
(*                                                                         *)
(* One invocation is a walk of pc through                                  *)
(*   idle -> start -> parsed -> finished -> dispatched -> render -> done   *)
(* with one step per call the handler makes to a collaborator.  Several    *)
(* invocations may follow each other in one process; the option variables  *)
(* live across them, everything else is per invocation.                    *)
(***************************************************************************)
EXTENDS Integers, Sequences, FiniteSets, TLC

\* ------------------------------------------------------------------ bounds
MaxInvocations == 2
MaxResults == 2

\* --------------------------------------------------------------- constants
DefaultMaxRows == 10000

VARIABLES
    executeFetchAsAppOptions,       \* package-level option struct
    executeFetchAsDBAOptions,       \* package-level option struct
    executeMultiFetchAsDBAOptions,  \* package-level option struct
    cmd,         \* the command being run, "none" before the first one
    args,        \* positional arguments of the invocation
    supplied,    \* flags given on the command line of this invocation
    pc,          \* position of the handler
    alias,       \* result of ParseTabletAlias
    finished,    \* number of cli.FinishedParsing calls in this invocation
    calls,       \* requests handed to the vtctld client in this invocation
    resp,        \* what the client returned
    marshalled,  \* values handed to cli.MarshalJSON in this invocation
    out,         \* writes made to the output in this invocation
    ret,         \* what the handler returned
    invocations  \* number of invocations started in this process

vars == <<executeFetchAsAppOptions, executeFetchAsDBAOptions,
          executeMultiFetchAsDBAOptions, cmd, args, supplied, pc, alias,
          finished, calls, resp, marshalled, out, ret, invocations>>

options == <<executeFetchAsAppOptions, executeFetchAsDBAOptions,
             executeMultiFetchAsDBAOptions>>

\* ------------------------------------------------------------------ values
FetchCommands == {"ExecuteFetchAsApp", "ExecuteFetchAsDBA", "ExecuteMultiFetchAsDBA"}
Commands == FetchCommands \cup {"GetUnresolvedTransactions"}

NoErr == [type |-> "nil"]
Unset == [set |-> FALSE]
Given(v) == [set |-> TRUE, val |-> v]

Running == [state |-> "running"]
ReturnNil == [state |-> "returned", err |-> NoErr]
ReturnErr(e) == [state |-> "returned", err |-> e]

Digits == {"0", "1", "2", "3", "4", "5", "6", "7", "8", "9"}

DigitValue(c) ==
    CASE c = "0" -> 0 [] c = "1" -> 1 [] c = "2" -> 2 [] c = "3" -> 3
      [] c = "4" -> 4 [] c = "5" -> 5 [] c = "6" -> 6 [] c = "7" -> 7
      [] c = "8" -> 8 [] c = "9" -> 9

\* Tablet-alias tokens, as strings of characters.
TokenWellFormed == <<"z", "o", "n", "e", "1", "-", "0", "0", "0", "0", "0", "0", "0", "1", "0", "0">>
TokenThreeParts == <<"n", "o", "t", "-", "a", "n", "-", "a", "l", "i", "a", "s">>
TokenNonNumeric == <<"z", "o", "n", "e", "1", "-", "a", "b", "c">>
Tokens == {TokenWellFormed, TokenThreeParts, TokenNonNumeric}

Queries == {"select 1"}
Keyspaces == {"", "ks1"}
MaxRowsFlags == {Unset, Given(0)}
BoolFlags == {Unset, Given(TRUE)}

\* Replies of the remote side.
ProtoResults ==
    { [fields |-> <<"1">>, rows |-> <<<<"1">>>>],
      [fields |-> <<"id", "v">>, rows |-> <<<<"7", "<invalid-utf8>">>>>] }
ProtoTransactions ==
    { <<>>, <<[dtid |-> "ks1:-80:1"]>>, <<[dtid |-> "<invalid-utf8>"]>> }
RemoteErrors == {[type |-> "TransportOrServerError", msg |-> "statement 2 failed"]}

RECURSIVE SeqsUpTo(_, _)
SeqsUpTo(S, n) ==
    IF n = 0 THEN {<<>>}
    ELSE LET shorter == SeqsUpTo(S, n - 1)
         IN shorter \cup {Append(s, x) : s \in {t \in shorter : Len(t) = n - 1}, x \in S}

Replies(c) ==
    {[err |-> e] : e \in RemoteErrors} \cup
    CASE c \in {"ExecuteFetchAsApp", "ExecuteFetchAsDBA"} ->
            {[err |-> NoErr, Result |-> p] : p \in ProtoResults}
      [] c = "ExecuteMultiFetchAsDBA" ->
            {[err |-> NoErr, Results |-> ps] : ps \in SeqsUpTo(ProtoResults, MaxResults)}
      [] c = "GetUnresolvedTransactions" ->
            {[err |-> NoErr, Transactions |-> ts] : ts \in ProtoTransactions}

\* ------------------------------------------------------------ collaborators
\* strings.Split(s, sep) on a string of characters.
RECURSIVE Split(_, _)
Split(s, sep) ==
    IF \A i \in 1..Len(s) : s[i] # sep THEN <<s>>
    ELSE LET i == CHOOSE k \in 1..Len(s) :
                      s[k] = sep /\ \A j \in 1..(k - 1) : s[j] # sep
         IN <<SubSeq(s, 1, i - 1)>> \o Split(SubSeq(s, i + 1, Len(s)), sep)

RECURSIVE Decimal(_)
Decimal(s) ==
    IF Len(s) = 0 THEN 0
    ELSE 10 * Decimal(SubSeq(s, 1, Len(s) - 1)) + DigitValue(s[Len(s)])

\* topoproto.ParseUID: an unsigned decimal (the tokens of this model stay far
\* below the 32 bits the uid may take).
ParseUID(s) ==
    IF Len(s) > 0 /\ (\A i \in 1..Len(s) : s[i] \in Digits)
    THEN [err |-> NoErr, uid |-> Decimal(s)]
    ELSE [err |-> [type |-> "MalformedIdentity", why |-> "uid", token |-> s]]

\* topoproto.ParseTabletAlias: "<cell>-<uid>".
ParseTabletAlias(token) ==
    LET nameParts == Split(token, "-")
    IN IF Len(nameParts) # 2
       THEN [err |-> [type |-> "MalformedIdentity", why |-> "format", token |-> token]]
       ELSE LET u == ParseUID(nameParts[2])
            IN IF u.err # NoErr
               THEN [err |-> [type |-> "MalformedIdentity", why |-> "uid", token |-> token]]
               ELSE [err |-> NoErr, Cell |-> nameParts[1], Uid |-> u.uid]

\* sqltypes.Proto3ToResult: the reply's result as a sqltypes.Result.
Proto3ToResult(p) ==
    [gotype |-> "*sqltypes.Result", Fields |-> p.fields, Rows |-> p.rows]

Representable(s) == s # "<invalid-utf8>"

ResultRepresentable(qr) ==
    \A r \in 1..Len(qr.Rows) : \A c \in 1..Len(qr.Rows[r]) : Representable(qr.Rows[r][c])

Encodable(v) ==
    CASE v.gotype = "*sqltypes.Result" -> ResultRepresentable(v)
      [] v.gotype = "[]*sqltypes.Result" ->
            \A i \in 1..Len(v.elems) : ResultRepresentable(v.elems[i])
      [] v.gotype = "[]*vtctldatapb.Transaction" ->
            \A i \in 1..Len(v.elems) : Representable(v.elems[i].dtid)

\* cli.MarshalJSON: the whole value as one document, or an error.
MarshalJSON(v) ==
    IF Encodable(v) THEN [err |-> NoErr, data |-> [json |-> v]]
    ELSE [err |-> [type |-> "EncodingError"]]

\* fmt.Printf("%s\n", data): one write of the document and a newline.
Printf(data) == [op |-> "Printf", bytes |-> <<data, "\n">>]

\* cli.WriteQueryResultTable(cmd.OutOrStdout(), qr): one table block.
WriteQueryResultTable(qr) == [op |-> "table", header |-> qr.Fields, rows |-> qr.Rows]

\* ----------------------------------------------------------------- requests
\* &vtctldatapb.ExecuteFetchAsAppRequest{...}
ExecuteFetchAsAppRequest(a, query) ==
    [kind |-> "ExecuteFetchAsApp",
     TabletAlias |-> a,
     Query |-> query,
     MaxRows |-> executeFetchAsAppOptions.MaxRows,
     UsePool |-> executeFetchAsAppOptions.UsePool]

\* &vtctldatapb.ExecuteFetchAsDBARequest{...}
ExecuteFetchAsDBARequest(a, query) ==
    [kind |-> "ExecuteFetchAsDBA",
     TabletAlias |-> a,
     Query |-> query,
     MaxRows |-> executeFetchAsDBAOptions.MaxRows,
     DisableBinlogs |-> executeFetchAsDBAOptions.DisableBinlogs,
     ReloadSchema |-> executeFetchAsDBAOptions.ReloadSchema]

\* The multi-statement request filled from the single-statement options.
ExecuteMultiFetchAsDBARequestFromDBAOptions(a, sql) ==
    [kind |-> "ExecuteMultiFetchAsDBA",
     TabletAlias |-> a,
     Sql |-> sql,
     MaxRows |-> executeFetchAsDBAOptions.MaxRows,
     DisableBinlogs |-> executeFetchAsDBAOptions.DisableBinlogs,
     ReloadSchema |-> executeFetchAsDBAOptions.ReloadSchema]

\* &vtctldatapb.ExecuteMultiFetchAsDBARequest{...}
ExecuteMultiFetchAsDBARequest(a, sql) ==
    [kind |-> "ExecuteMultiFetchAsDBA",
     TabletAlias |-> a,
     Sql |-> sql,
     MaxRows |-> executeMultiFetchAsDBAOptions.MaxRows,
     DisableBinlogs |-> executeMultiFetchAsDBAOptions.DisableBinlogs,
     ReloadSchema |-> executeMultiFetchAsDBAOptions.ReloadSchema]

\* A request that replaces the empty keyspace by a default one.
GetUnresolvedTransactionsRequestDefaulting(keyspace) ==
    [kind |-> "GetUnresolvedTransactions",
     Keyspace |-> IF keyspace = "" THEN "ks1" ELSE keyspace]

\* &vtctldatapb.GetUnresolvedTransactionsRequest{Keyspace: keyspace}
GetUnresolvedTransactionsRequest(keyspace) ==
    [kind |-> "GetUnresolvedTransactions", Keyspace |-> keyspace]

BuildRequest(c) ==
    CASE c = "ExecuteFetchAsApp" -> ExecuteFetchAsAppRequest(alias, args[2])
      [] c = "ExecuteFetchAsDBA" -> ExecuteFetchAsDBARequest(alias, args[2])
      [] c = "ExecuteMultiFetchAsDBA" -> ExecuteMultiFetchAsDBARequest(alias, args[2])
      [] c = "GetUnresolvedTransactions" -> GetUnresolvedTransactionsRequest(args[1])

\* The JSON option the running command reads.
JSONMode(c) ==
    CASE c = "ExecuteFetchAsApp" -> executeFetchAsAppOptions.JSON
      [] c = "ExecuteFetchAsDBA" -> executeFetchAsDBAOptions.JSON
      [] c = "ExecuteMultiFetchAsDBA" -> executeMultiFetchAsDBAOptions.JSON
      [] c = "GetUnresolvedTransactions" -> TRUE

\* --------------------------------------------------------------------- init
Init ==
    /\ executeFetchAsAppOptions = [MaxRows |-> DefaultMaxRows, UsePool |-> FALSE, JSON |-> FALSE]
    /\ executeFetchAsDBAOptions =
           [MaxRows |-> DefaultMaxRows, DisableBinlogs |-> FALSE,
            ReloadSchema |-> FALSE, JSON |-> FALSE]
    /\ executeMultiFetchAsDBAOptions =
           [MaxRows |-> DefaultMaxRows, DisableBinlogs |-> FALSE,
            ReloadSchema |-> FALSE, JSON |-> FALSE]
    /\ cmd = "none"
    /\ args = <<>>
    /\ supplied = <<>>
    /\ pc = "idle"
    /\ alias = [err |-> NoErr]
    /\ finished = 0
    /\ calls = <<>>
    /\ resp = [err |-> NoErr]
    /\ marshalled = <<>>
    /\ out = <<>>
    /\ ret = Running
    /\ invocations = 0

\* ---------------------------------------------------------- flag parsing
\* pflag stores the value of every flag present on the command line into the
\* variable it was registered with, and leaves the others as they are.
ParseFlags(opts, flags) ==
    [f \in DOMAIN opts |-> IF flags[f].set THEN flags[f].val ELSE opts[f]]

AppFlagSets == [MaxRows : MaxRowsFlags, UsePool : BoolFlags, JSON : BoolFlags]
DBAFlagSets ==
    [MaxRows : MaxRowsFlags, DisableBinlogs : BoolFlags,
     ReloadSchema : BoolFlags, JSON : BoolFlags]

\* A new invocation: everything but the option variables starts afresh.
Begin(c, a, flags) ==
    /\ pc \in {"idle", "done"}
    /\ invocations < MaxInvocations
    /\ invocations' = invocations + 1
    /\ cmd' = c
    /\ args' = a
    /\ supplied' = flags
    /\ pc' = "start"
    /\ alias' = [err |-> NoErr]
    /\ finished' = 0
    /\ calls' = <<>>
    /\ resp' = [err |-> NoErr]
    /\ marshalled' = <<>>
    /\ out' = <<>>
    /\ ret' = Running

RunExecuteFetchAsApp ==
    \E token \in Tokens, query \in Queries, flags \in AppFlagSets :
        /\ Begin("ExecuteFetchAsApp", <<token, query>>, flags)
        /\ executeFetchAsAppOptions' = ParseFlags(executeFetchAsAppOptions, flags)
        /\ UNCHANGED <<executeFetchAsDBAOptions, executeMultiFetchAsDBAOptions>>

RunExecuteFetchAsDBA ==
    \E token \in Tokens, query \in Queries, flags \in DBAFlagSets :
        /\ Begin("ExecuteFetchAsDBA", <<token, query>>, flags)
        /\ executeFetchAsDBAOptions' = ParseFlags(executeFetchAsDBAOptions, flags)
        /\ UNCHANGED <<executeFetchAsAppOptions, executeMultiFetchAsDBAOptions>>

RunExecuteMultiFetchAsDBA ==
    \E token \in Tokens, sql \in Queries, flags \in DBAFlagSets :
        /\ Begin("ExecuteMultiFetchAsDBA", <<token, sql>>, flags)
        /\ executeMultiFetchAsDBAOptions' = ParseFlags(executeMultiFetchAsDBAOptions, flags)
        /\ UNCHANGED <<executeFetchAsAppOptions, executeFetchAsDBAOptions>>

RunGetUnresolvedTransactions ==
    \E keyspace \in Keyspaces :
        /\ Begin("GetUnresolvedTransactions", <<keyspace>>, <<>>)
        /\ UNCHANGED options

\* ------------------------------------------------------------ handler steps
Return(e) ==
    /\ ret' = ReturnErr(e)
    /\ pc' = "done"

\* ParseTabletAlias of every token of the model, computed once.
ParsedTokens == [token \in Tokens |-> ParseTabletAlias(token)]

\* The parse step with its error check left out.
ParseAliasIgnoringError ==
    /\ pc = "start"
    /\ cmd \in FetchCommands
    /\ alias' = ParsedTokens[args[1]]
    /\ pc' = "parsed"
    /\ UNCHANGED <<options, cmd, args, supplied, finished, calls, resp,
                   marshalled, out, ret, invocations>>

\* alias, err := topoproto.ParseTabletAlias(cmd.Flags().Arg(0))
\* if err != nil { return err }
ParseAlias ==
    /\ pc = "start"
    /\ cmd \in FetchCommands
    /\ LET parsed == ParsedTokens[args[1]]
       IN /\ alias' = parsed
          /\ IF parsed.err # NoErr
             THEN Return(parsed.err)
             ELSE pc' = "parsed" /\ UNCHANGED ret
    /\ UNCHANGED <<options, cmd, args, supplied, finished, calls, resp,
                   marshalled, out, invocations>>

\* cli.FinishedParsing(cmd)
FinishedParsing ==
    /\ \/ pc = "parsed" /\ cmd \in FetchCommands
       \/ pc = "start" /\ cmd = "GetUnresolvedTransactions"
    /\ finished' = finished + 1
    /\ pc' = "finished"
    /\ UNCHANGED <<options, cmd, args, supplied, alias, calls, resp,
                   marshalled, out, ret, invocations>>

\* The call issued without waiting for the checkpoint.
RemoteCallBeforeCheckpoint ==
    /\ pc \in {"parsed", "finished"}
    /\ calls' = Append(calls, BuildRequest(cmd))
    /\ pc' = "dispatched"
    /\ UNCHANGED <<options, cmd, args, supplied, alias, finished, resp,
                   marshalled, out, ret, invocations>>

\* resp, err := client.<Command>(commandCtx, &request{...}): the call goes out
RemoteCall ==
    /\ pc = "finished"
    /\ calls' = Append(calls, BuildRequest(cmd))
    /\ pc' = "dispatched"
    /\ UNCHANGED <<options, cmd, args, supplied, alias, finished, resp,
                   marshalled, out, ret, invocations>>

\* The return with the remote error wrapped into a new one.
RemoteReturnWrapping ==
    /\ pc = "dispatched"
    /\ \E reply \in Replies(cmd) :
        /\ resp' = reply
        /\ IF reply.err # NoErr
           THEN Return([type |-> "wrapped", cause |-> reply.err])
           ELSE pc' = "render" /\ UNCHANGED ret
    /\ UNCHANGED <<options, cmd, args, supplied, alias, finished, calls,
                   marshalled, out, invocations>>

\* The return that sends the request again after a remote error.
RemoteReturnRetrying ==
    /\ pc = "dispatched"
    /\ \E reply \in Replies(cmd) :
        /\ resp' = reply
        /\ pc' = IF reply.err # NoErr THEN "finished" ELSE "render"
        /\ UNCHANGED ret
    /\ UNCHANGED <<options, cmd, args, supplied, alias, finished, calls,
                   marshalled, out, invocations>>

\* ... and comes back:  if err != nil { return err }
RemoteReturn ==
    /\ pc = "dispatched"
    /\ \E reply \in Replies(cmd) :
        /\ resp' = reply
        /\ IF reply.err # NoErr
           THEN Return(reply.err)
           ELSE pc' = "render" /\ UNCHANGED ret
    /\ UNCHANGED <<options, cmd, args, supplied, alias, finished, calls,
                   marshalled, out, invocations>>

\* ---------------------------------------------------------------- rendering
\* The document and its newline written by two separate writes.
WriteJSONInTwoWrites(v) ==
    LET m == MarshalJSON(v)
    IN IF m.err # NoErr
       THEN [err |-> m.err, writes |-> <<>>]
       ELSE [err |-> NoErr,
             writes |-> <<[op |-> "Printf", bytes |-> <<m.data>>],
                          [op |-> "Printf", bytes |-> <<"\n">>]>>]

\* data, err := cli.MarshalJSON(v); if err != nil { return err }
\* fmt.Printf("%s\n", data)
WriteJSON(v) ==
    LET m == MarshalJSON(v)
    IN IF m.err # NoErr
       THEN [err |-> m.err, writes |-> <<>>]
       ELSE [err |-> NoErr, writes |-> <<Printf(m.data)>>]

\* The decoding loop that puts each result in front of the earlier ones.
DecodeResultsPrepending(results) ==
    [i \in 1..Len(results) |-> Proto3ToResult(results[Len(results) + 1 - i])]

\* for _, result := range resp.Results { qrs = append(qrs, Proto3ToResult(result)) }
DecodeResults(results) ==
    [i \in 1..Len(results) |-> Proto3ToResult(results[i])]

\* The table loop that writes the first result at every turn.
WriteTablesRepeatingFirst(qrs) ==
    [i \in 1..Len(qrs) |-> WriteQueryResultTable(qrs[1])]

\* for _, qr := range qrs { cli.WriteQueryResultTable(cmd.OutOrStdout(), qr) }
WriteTables(qrs) ==
    [i \in 1..Len(qrs) |-> WriteQueryResultTable(qrs[i])]

\* The tail of a handler: hand v to the serializer, or write the tables.
Emit(json, v, tables) ==
    IF json
    THEN LET w == WriteJSON(v)
         IN /\ marshalled' = Append(marshalled, v)
            /\ out' = out \o w.writes
            /\ Return(w.err)
    ELSE /\ marshalled' = marshalled
         /\ out' = out \o tables
         /\ Return(NoErr)

RenderFrame ==
    /\ pc = "render"
    /\ UNCHANGED <<options, cmd, args, supplied, alias, finished, calls,
                   resp, invocations>>

RenderExecuteFetchAsApp ==
    /\ RenderFrame
    /\ cmd = "ExecuteFetchAsApp"
    /\ LET qr == Proto3ToResult(resp.Result)
       IN Emit(executeFetchAsAppOptions.JSON, qr, <<WriteQueryResultTable(qr)>>)

RenderExecuteFetchAsDBA ==
    /\ RenderFrame
    /\ cmd = "ExecuteFetchAsDBA"
    /\ LET qr == Proto3ToResult(resp.Result)
       IN Emit(executeFetchAsDBAOptions.JSON, qr, <<WriteQueryResultTable(qr)>>)

RenderExecuteMultiFetchAsDBA ==
    /\ RenderFrame
    /\ cmd = "ExecuteMultiFetchAsDBA"
    /\ LET qrs == DecodeResults(resp.Results)
       IN Emit(executeMultiFetchAsDBAOptions.JSON,
               [gotype |-> "[]*sqltypes.Result", elems |-> qrs],
               WriteTables(qrs))

RenderGetUnresolvedTransactions ==
    /\ RenderFrame
    /\ cmd = "GetUnresolvedTransactions"
    /\ Emit(TRUE,
            [gotype |-> "[]*vtctldatapb.Transaction", elems |-> resp.Transactions],
            <<>>)

\* -------------------------------------------------------------------- specs
Run ==
    \/ RunExecuteFetchAsApp
    \/ RunExecuteFetchAsDBA
    \/ RunExecuteMultiFetchAsDBA
    \/ RunGetUnresolvedTransactions

Render ==
    \/ RenderExecuteFetchAsApp
    \/ RenderExecuteFetchAsDBA
    \/ RenderExecuteMultiFetchAsDBA
    \/ RenderGetUnresolvedTransactions

\* The steps the handler takes on its own, without waiting for anyone.
Local == ParseAlias \/ FinishedParsing \/ RemoteCall \/ Render

Next == Run \/ Local \/ RemoteReturn

Spec == Init /\ [][Next]_vars

\* A handler that can take a step takes it; the remote side owes nothing.
FairSpec == Spec /\ WF_vars(Local)

TypeOK ==
    /\ cmd \in Commands \cup {"none"}
    /\ pc \in {"idle", "start", "parsed", "finished", "dispatched", "render", "done"}
    /\ finished \in 0..1
    /\ invocations \in 0..MaxInvocations

\* ------------------------------------------------------------------- claims
Done == pc = "done"
Succeeded == Done /\ ret = ReturnNil
Called == Len(calls) > 0
Replied == Called /\ pc \in {"render", "done"}
RepliedOK == Replied /\ resp.err = NoErr
RepliedError == Replied /\ resp.err # NoErr
ParseFails == cmd \in FetchCommands /\ ParseTabletAlias(args[1]).err # NoErr

\* What the running command is to serialize, given the reply r.
Payload(c, r) ==
    CASE c \in {"ExecuteFetchAsApp", "ExecuteFetchAsDBA"} -> Proto3ToResult(r.Result)
      [] c = "ExecuteMultiFetchAsDBA" ->
            [gotype |-> "[]*sqltypes.Result",
             elems |-> [i \in 1..Len(r.Results) |-> Proto3ToResult(r.Results[i])]]
      [] c = "GetUnresolvedTransactions" ->
            [gotype |-> "[]*vtctldatapb.Transaction", elems |-> r.Transactions]

\* C1: in the three fetch commands a tablet-alias token that does not parse
\* makes the command return the parse error, with no remote call, no
\* FinishedParsing checkpoint and no output.
C1_ParseFailureShortCircuits ==
    ParseFails =>
        /\ calls = <<>>
        /\ finished = 0
        /\ out = <<>>
        /\ pc \in {"start", "done"}
        /\ Done => ret = ReturnErr(ParseTabletAlias(args[1]).err)

C1_Witness ==
    /\ ParseFails
    /\ Done
    /\ ret.err.type = "MalformedIdentity"
    /\ args[1] = TokenThreeParts

\* C2: when the remote call returns an error the command returns exactly that
\* error, writes neither table nor document, and sends no second request.
C2_RemoteErrorVerbatim ==
    RepliedError =>
        /\ Done
        /\ ret = ReturnErr(resp.err)
        /\ out = <<>>
        /\ marshalled = <<>>
        /\ Len(calls) = 1

C2_Witness ==
    /\ RepliedError
    /\ cmd = "ExecuteMultiFetchAsDBA"
    /\ ret.err.type = "TransportOrServerError"

\* C3: every request of a fetch command carries the --max-rows value given to
\* that invocation, or 10,000 when that invocation gave none.
C3_MaxRowsIsSuppliedOrDefault ==
    cmd \in FetchCommands =>
        \A i \in 1..Len(calls) :
            calls[i].MaxRows =
                IF supplied.MaxRows.set THEN supplied.MaxRows.val ELSE DefaultMaxRows

\* C4: a DBA or multi-DBA request has no UsePool field, an App request has no
\* DisableBinlogs or ReloadSchema field, and the fields a request has are the
\* options of the command that sent it.
C4_FieldIsolation ==
    \A i \in 1..Len(calls) :
        LET r == calls[i]
        IN /\ r.kind = cmd
           /\ r.kind = "ExecuteFetchAsApp" =>
                 /\ DOMAIN r = {"kind", "TabletAlias", "Query", "MaxRows", "UsePool"}
                 /\ r.MaxRows = executeFetchAsAppOptions.MaxRows
                 /\ r.UsePool = executeFetchAsAppOptions.UsePool
           /\ r.kind = "ExecuteFetchAsDBA" =>
                 /\ DOMAIN r = {"kind", "TabletAlias", "Query", "MaxRows",
                                "DisableBinlogs", "ReloadSchema"}
                 /\ r.MaxRows = executeFetchAsDBAOptions.MaxRows
                 /\ r.DisableBinlogs = executeFetchAsDBAOptions.DisableBinlogs
                 /\ r.ReloadSchema = executeFetchAsDBAOptions.ReloadSchema
           /\ r.kind = "ExecuteMultiFetchAsDBA" =>
                 /\ DOMAIN r = {"kind", "TabletAlias", "Sql", "MaxRows",
                                "DisableBinlogs", "ReloadSchema"}
                 /\ r.MaxRows = executeMultiFetchAsDBAOptions.MaxRows
                 /\ r.DisableBinlogs = executeMultiFetchAsDBAOptions.DisableBinlogs
                 /\ r.ReloadSchema = executeMultiFetchAsDBAOptions.ReloadSchema

C4_Witness ==
    /\ cmd = "ExecuteMultiFetchAsDBA"
    /\ Called
    /\ calls[1].DisableBinlogs
    /\ ~executeFetchAsDBAOptions.DisableBinlogs
    /\ executeFetchAsDBAOptions.ReloadSchema
    /\ ~calls[1].ReloadSchema

\* C5: ExecuteMultiFetchAsDBA in JSON mode hands the serializer one value, a
\* sequence of as many results as the reply holds, the i-th being the decoded
\* i-th result of the reply; an empty reply gives the empty sequence.
C5_BatchDocumentInOrder ==
    (cmd = "ExecuteMultiFetchAsDBA" /\ executeMultiFetchAsDBAOptions.JSON
        /\ RepliedOK /\ Done) =>
        /\ Len(marshalled) = 1
        /\ marshalled[1].gotype = "[]*sqltypes.Result"
        /\ Len(marshalled[1].elems) = Len(resp.Results)
        /\ \A i \in 1..Len(resp.Results) :
               marshalled[1].elems[i] = Proto3ToResult(resp.Results[i])

C5_Witness ==
    /\ cmd = "ExecuteMultiFetchAsDBA"
    /\ executeMultiFetchAsDBAOptions.JSON
    /\ RepliedOK
    /\ Done
    /\ Len(resp.Results) = 2
    /\ resp.Results[1] # resp.Results[2]
    /\ Len(marshalled) = 1

\* C6: ExecuteMultiFetchAsDBA in table mode writes one table block per result
\* of the reply, the i-th block being the table of the i-th result, and hands
\* nothing to the serializer.
C6_BatchTablesInOrder ==
    (cmd = "ExecuteMultiFetchAsDBA" /\ ~executeMultiFetchAsDBAOptions.JSON
        /\ RepliedOK /\ Done) =>
        /\ Len(out) = Len(resp.Results)
        /\ \A i \in 1..Len(resp.Results) :
               out[i] = WriteQueryResultTable(Proto3ToResult(resp.Results[i]))
        /\ marshalled = <<>>
        /\ ret = ReturnNil

C6_Witness ==
    /\ cmd = "ExecuteMultiFetchAsDBA"
    /\ ~executeMultiFetchAsDBAOptions.JSON
    /\ RepliedOK
    /\ Done
    /\ Len(resp.Results) = 2
    /\ resp.Results[1] # resp.Results[2]
    /\ Len(out) = 2

\* C7: in JSON mode a command that succeeds has made exactly one write, the
\* encoding of its whole payload followed by a newline; a command whose
\* payload does not encode returns the encoding error and has written nothing.
C7_OneDocumentWrite ==
    (RepliedOK /\ Done /\ JSONMode(cmd)) =>
        LET m == MarshalJSON(Payload(cmd, resp))
        IN /\ marshalled = <<Payload(cmd, resp)>>
           /\ m.err = NoErr =>
                 /\ ret = ReturnNil
                 /\ Len(out) = 1
                 /\ out[1].bytes = <<m.data, "\n">>
           /\ m.err # NoErr =>
                 /\ ret = ReturnErr(m.err)
                 /\ out = <<>>

C7_Witness ==
    /\ cmd = "ExecuteMultiFetchAsDBA"
    /\ JSONMode(cmd)
    /\ Succeeded
    /\ Len(resp.Results) = 2
    /\ Len(out) = 1

\* C8: GetUnresolvedTransactions checks nothing about its keyspace: it sends
\* one request carrying the keyspace as given, the empty one included, and
\* when it succeeds its output is one document of the reply's transactions,
\* never a table.
C8_KeyspacePassedThrough ==
    cmd = "GetUnresolvedTransactions" =>
        /\ pc \in {"dispatched", "render", "done"} =>
              calls = <<[kind |-> "GetUnresolvedTransactions", Keyspace |-> args[1]]>>
        /\ \A i \in 1..Len(out) : out[i].op # "table"
        /\ Succeeded =>
              out = <<Printf([json |-> [gotype |-> "[]*vtctldatapb.Transaction",
                                        elems |-> resp.Transactions]])>>

C8_Witness ==
    /\ cmd = "GetUnresolvedTransactions"
    /\ args[1] = ""
    /\ Succeeded
    /\ Len(resp.Transactions) = 1

\* C9: when a request goes out, cli.FinishedParsing has run exactly once in
\* that invocation and before the request; in the fetch commands it runs only
\* once the tablet alias has parsed.
C9_CheckpointBeforeCall ==
    /\ finished <= 1
    /\ Called => finished = 1
    /\ pc \in {"dispatched", "render"} => finished = 1
    /\ (cmd \in FetchCommands /\ finished > 0) =>
          /\ alias = ParseTabletAlias(args[1])
          /\ alias.err = NoErr

C9_Witness ==
    /\ cmd = "ExecuteFetchAsDBA"
    /\ pc = "dispatched"
    /\ finished = 1
    /\ alias.Uid = 100

Rank(p) ==
    CASE p = "idle" -> 0 [] p = "start" -> 1 [] p = "parsed" -> 2
      [] p = "finished" -> 3 [] p = "dispatched" -> 4 [] p = "render" -> 5
      [] p = "done" -> 6

C10_StateProperty ==
    /\ Len(calls) <= 1
    /\ out # <<>> => RepliedOK /\ Done
    /\ ret # Running <=> Done
    /\ (Done /\ ret # ReturnNil) =>
          \/ ~Called /\ ParseFails
          \/ RepliedError
          \/ RepliedOK /\ marshalled # <<>> /\ out = <<>>

C10_StepProperty ==
    /\ pc' # "start" => Rank(pc') >= Rank(pc)
    /\ pc' = "start" => pc \in {"idle", "done"}
    /\ Done => pc' \in {"start", "done"}
    /\ Len(calls') > Len(calls) => pc = "finished" /\ pc' = "dispatched"
    /\ (pc' = pc) => (calls' = calls /\ out' = out /\ ret' = ret)

\* C10: an invocation only moves forward through building, dispatched and
\* rendering: it sends at most one request, writes only after that request has
\* come back without error, stops at its first failure, and, if the remote call
\* returns, ends with success or with a returned error.
C10_ForwardOnly ==
    /\ []C10_StateProperty
    /\ [][C10_StepProperty]_vars
    /\ (pc \in {"start", "parsed", "finished"}) ~> (pc \in {"dispatched", "done"})
    /\ (pc = "render") ~> Done

C10_Witness ==
    /\ invocations = 2
    /\ Succeeded
    /\ Len(calls) = 1
    /\ Len(out) = 2

====
